---- MODULE Spec2Model ----
(***************************************************************************)
(* NEEC_MESA_LEDS: two Python senders that stream frames to an LED matrix  *)
(* over a serial link.                                                     *)
(*   src/Python/send_screen_to_leds.py  live screen source                 *)
(*   src/Python/send_video_to_leds.py   downloaded video source            *)
(* The module models the zigzag serializer, the frame-skip arithmetic and  *)
(* the control flow of both main() functions (prompts, setup, send loop,   *)
(* cleanup, exit status).                                                  *)
(***************************************************************************)
EXTENDS Integers, Sequences, FiniteSets, TLC

(***************************************************************************)
(* Program constants                                                       *)
(***************************************************************************)
DEFAULT_GRID_WIDTH == 32
DEFAULT_GRID_HEIGHT == 18
DEFAULT_BAUD_RATE == 115200
DEFAULT_TARGET_FPS == 5
TARGET_FPS == 5
START_BYTE_1 == 165
START_BYTE_2 == 90

(***************************************************************************)
(* Bounds of the model                                                     *)
(***************************************************************************)
\* largest width and height of the grids enumerated for the serializer alone
MaxDim == 3

(***************************************************************************)
(* Frames.  A frame is a NumPy array of shape (h, w, channels): a record   *)
(* with its shape and px[y][x], the tuple of the pixel's channel values.   *)
(***************************************************************************)
Max(a, b) == IF a >= b THEN a ELSE b

\* range(n): 0, 1, ..., n-1
Range(n) == [i \in 1..n |-> i - 1]

\* range(n - 1, -1, -1): n-1, ..., 1, 0
RangeDown(n) == [i \in 1..n |-> n - i]

\* cv2.resize(frame, (grid_width, grid_height)): the result has the asked
\* height and width and the channel count of its input; when the size is
\* already right the pixels are unchanged, otherwise each target pixel is
\* sampled from the source (the interpolation weights are the library's).
CvResize(frame, grid_width, grid_height) ==
  [h |-> grid_height, w |-> grid_width, channels |-> frame.channels,
   px |-> [y \in 0..(grid_height - 1) |-> [x \in 0..(grid_width - 1) |->
             frame.px[(y * frame.h) \div grid_height][(x * frame.w) \div grid_width]]]]

\* cv2.cvtColor(frame, cv2.COLOR_BGR2RGB): swaps the first and third channel
CvtColorBGR2RGB(frame) ==
  [frame EXCEPT !.px = [y \in DOMAIN frame.px |-> [x \in DOMAIN frame.px[y] |->
      [c \in DOMAIN frame.px[y][x] |->
          IF c = 1 THEN frame.px[y][x][3]
          ELSE IF c = 3 THEN frame.px[y][x][1]
          ELSE frame.px[y][x][c]]]]]

\* the inner loops as a plausible slip would have them: the channel order of
\* an odd row's pixels reversed together with the traversal
RECURSIVE EmitRowChannelsReversed(_, _, _)
EmitRowChannelsReversed(frame_rgb, y, xs) ==
  IF xs = <<>> THEN <<>>
  ELSE LET p == frame_rgb.px[y][Head(xs)]
       IN  (IF y % 2 = 0 THEN <<p[1], p[2], p[3]>> ELSE <<p[3], p[2], p[1]>>)
             \o EmitRowChannelsReversed(frame_rgb, y, Tail(xs))

\* the inner for loops: r, g, b = frame_rgb[y, x]; pixel_data.extend([r, g, b])
\* for x in the order xs
RECURSIVE EmitRow(_, _, _)
EmitRow(frame_rgb, y, xs) ==
  IF xs = <<>> THEN <<>>
  ELSE LET p == frame_rgb.px[y][Head(xs)]
       IN  <<p[1], p[2], p[3]>> \o EmitRow(frame_rgb, y, Tail(xs))

\* the direction of row y as a plausible slip would have it: every row L -> R
RowOrderNoReverse(y, grid_width) == Range(grid_width)

\* the x order of row y: EVEN row L -> R, ODD row R -> L
RowOrder(y, grid_width) ==
  IF y % 2 = 0 THEN Range(grid_width) ELSE RangeDown(grid_width)

\* the outer loop, for y in range(grid_height), from row y on
RECURSIVE ZigzagRows(_, _, _, _)
ZigzagRows(frame_rgb, grid_width, grid_height, y) ==
  IF y >= grid_height THEN <<>>
  ELSE EmitRow(frame_rgb, y, RowOrder(y, grid_width))
         \o ZigzagRows(frame_rgb, grid_width, grid_height, y + 1)

\* what the serializer returns: None, or the list pixel_data
PyNone == [none |-> TRUE, data |-> <<>>]
PyList(s) == [none |-> FALSE, data |-> s]

Mismatch(frame, grid_width, grid_height) ==
  frame.h # grid_height \/ frame.w # grid_width \/ frame.channels # 3

\* send_video_to_leds.py: a mismatching frame is refused at once
prepare_pixel_data_standard_zigzag_video(frame_rgb, grid_width, grid_height) ==
  IF Mismatch(frame_rgb, grid_width, grid_height) THEN PyNone
  ELSE PyList(ZigzagRows(frame_rgb, grid_width, grid_height, 0))

\* send_screen_to_leds.py: a mismatching frame is resized once more and
\* refused if it still mismatches
prepare_pixel_data_standard_zigzag_screen(frame_rgb, grid_width, grid_height) ==
  IF Mismatch(frame_rgb, grid_width, grid_height)
  THEN LET again == CvResize(frame_rgb, grid_width, grid_height)
       IN  IF Mismatch(again, grid_width, grid_height) THEN PyNone
           ELSE PyList(ZigzagRows(again, grid_width, grid_height, 0))
  ELSE PyList(ZigzagRows(frame_rgb, grid_width, grid_height, 0))

prepare_pixel_data_standard_zigzag(script, frame_rgb, grid_width, grid_height) ==
  IF script = "screen"
  THEN prepare_pixel_data_standard_zigzag_screen(frame_rgb, grid_width, grid_height)
  ELSE prepare_pixel_data_standard_zigzag_video(frame_rgb, grid_width, grid_height)

(***************************************************************************)
(* Prompts.  A line typed at a prompt, after strip(): empty, an integer,   *)
(* or text that int()/float() refuses.                                     *)
(***************************************************************************)
Empty == [kind |-> "empty", val |-> 0]
Text == [kind |-> "text", val |-> 0]
Typed(n) == [kind |-> "int", val |-> n]

\* one pass of the while True loop of get_int_input as a plausible slip would
\* have it: the test value >= 0 in place of value > 0
get_int_input_accepts_zero(value_str, default_value) ==
  IF value_str.kind = "empty" THEN [returned |-> TRUE, value |-> default_value]
  ELSE IF value_str.kind = "int" /\ value_str.val >= 0
       THEN [returned |-> TRUE, value |-> value_str.val]
       ELSE [returned |-> FALSE, value |-> 0]

\* one pass of the while True loop of get_int_input: the default on an empty
\* line, the value when it is a positive integer, otherwise a message and
\* the prompt again
get_int_input(value_str, default_value) ==
  IF value_str.kind = "empty" THEN [returned |-> TRUE, value |-> default_value]
  ELSE IF value_str.kind = "int" /\ value_str.val > 0
       THEN [returned |-> TRUE, value |-> value_str.val]
       ELSE [returned |-> FALSE, value |-> 0]

\* one pass of get_float_input, the values in milliseconds
get_float_input(value_str, default_value) ==
  IF value_str.kind = "empty" THEN [returned |-> TRUE, value |-> default_value]
  ELSE IF value_str.kind = "int" /\ value_str.val > 0
       THEN [returned |-> TRUE, value |-> value_str.val]
       ELSE [returned |-> FALSE, value |-> 0]

(***************************************************************************)
(* Frame-skip arithmetic.  Rates are in thousandths of a frame per second, *)
(* so original_fps / target_fps is the rational original_fps /             *)
(* (1000 * target_fps).                                                    *)
(***************************************************************************)
\* int(n / d): the quotient truncated, a plausible slip for round()
PyRoundTruncating(n, d) == n \div d

\* Python 3 round(n / d) for d > 0: the nearest integer, a tie to the even one
PyRound(n, d) ==
  LET q == n \div d
      r == n % d
  IN  IF 2 * r < d THEN q
      ELSE IF 2 * r > d THEN q + 1
      ELSE IF q % 2 = 0 THEN q ELSE q + 1

FramesToSkip(original_fps, target_fps) ==
  IF original_fps <= 0 THEN 1
  ELSE Max(1, PyRound(original_fps, 1000 * target_fps))

(***************************************************************************)
(* Bounds and input sets of the senders.  The default is taken at the      *)
(* width, baud rate, timeout and rate prompts; the heights are typed, so   *)
(* that the grids stay small (32 x 2, 32 x 3, 2 x 2, 2 x 3).               *)
(***************************************************************************)
\* most frames a video file holds
MaxFrames == 4
\* most screen grabs of a run of the screen sender
MaxGrabs == 3

Urls == {"", "https://youtu.be/v"}
Ports == {"", "COM3"}
WidthInputs == {Empty, Text, Typed(0), Typed(2)}
HeightInputs == {Typed(-1), Typed(2), Typed(3)}
BaudInputs == {Empty, Typed(0)}
TimeoutInputs == {Empty, Text}
FpsInputs == {Empty, Typed(0), Typed(30)}
\* rates cap.get(cv2.CAP_PROP_FPS) reports, in thousandths
OriginalFps == {0, 15000, 75000}
\* time.monotonic() differences of one iteration, in microseconds
Elapsed == {50000, 250000}
DEFAULT_TIMEOUT == 200
DOWNLOAD_FILENAME == "temp_youtube_video"

\* a frame as the source delivers it, before resizing: BGR, 2 x 2
RawFrame(seed) ==
  [h |-> 2, w |-> 2, channels |-> 3,
   px |-> [y \in 0..1 |-> [x \in 0..1 |->
             LET v == 12 * seed + 3 * (2 * y + x)
             IN  <<v + 3, v + 2, v + 1>>]]]
Seeds == {0, 1}

WithAlpha(frame) ==
  [frame EXCEPT !.channels = 4,
                !.px = [y \in DOMAIN frame.px |-> [x \in DOMAIN frame.px[y] |->
                          frame.px[y][x] \o <<255>>]]]

\* The shape of what cv2.resize and cv2.cvtColor hand back is the library's
\* affair; the code does not rely on it (it re-checks h, w and channels), so
\* the result is the asked shape, one row too many, or a fourth channel.
LibShapes == {"exact", "rows", "channels"}
Resized(raw, grid_width, grid_height, shape) ==
  IF shape = "exact" THEN CvResize(raw, grid_width, grid_height)
  ELSE IF shape = "rows" THEN CvResize(raw, grid_width, grid_height + 1)
  ELSE WithAlpha(CvResize(raw, grid_width, grid_height))

NoFrame == [h |-> 0, w |-> 0, channels |-> 0, px |-> <<>>]

\* packet_buffer = bytearray([START_BYTE_1, START_BYTE_2]) with only the
\* second start byte, a plausible slip
BuildPacketShortHeader(pixel_data) == <<START_BYTE_2>> \o pixel_data

\* packet_buffer = bytearray([START_BYTE_1, START_BYTE_2]);
\* packet_buffer.extend(pixel_byte_list)
BuildPacket(pixel_data) == <<START_BYTE_1, START_BYTE_2>> \o pixel_data

\* range(frames_to_skip) one too long, a plausible slip
SkipRangeOffByOne(n) == n + 1

\* for _ in range(frames_to_skip): the number of passes
SkipRange(n) == n

(***************************************************************************)
(* State of a run of a sender                                              *)
(***************************************************************************)
VARIABLES
  script,        \* which of the two scripts runs
  pc,            \* position in main()
  prompt,        \* the prompt answered last
  youtube_url, serial_port, value_str,
  grid_width, grid_height, baud_rate, timeout, target_fps, frame_delay,
  video_filepath,
  file_exists,   \* os.path.exists(video_filepath)
  cap,           \* cv2.VideoCapture: "None", "opened", "not_opened", "released"
  sct,           \* mss.mss(): "None", "ready"
  ser,           \* serial.Serial: "None", "open", "closed"
  original_fps, frames_to_skip, processed_frame_index,
  source_frames, \* frames the video file holds
  skip_i,        \* passes of the skip loop made in this iteration
  ret, rgb_frame, pixel_byte_list, packet_buffer, frame_count,
  processing_time, sleep_time,
  raised,        \* exception in flight at the end of the try block
  exit_status,   \* -1 while the process runs
  \* what has happened so far
  cause,         \* why the run left its normal course
  ser_opens, ser_closes,
  remove_calls,  \* calls of os.remove(video_filepath)
  removes,       \* of these, the ones that removed the file
  remove_failed, \* the last os.remove raised OSError
  n_grabs,       \* sct.grab calls
  n_iters,       \* iterations of the send loop begun
  n_writes,      \* ser.write calls
  n_sleeps,      \* pacing sleeps
  n_drops,       \* frames skipped for a pixel extraction error
  sent,          \* processed_frame_index at each write that returned
  write_failed,  \* a ser.write call has raised
  warned         \* the packet length warning has been printed

VARIABLES zScript, zFrame, zWidth, zHeight, zOut, zDone

VARIABLES skFps, skTarget, skSkip, skDone

mvars == <<script, pc, prompt, youtube_url, serial_port, value_str,
           grid_width, grid_height, baud_rate, timeout, target_fps, frame_delay,
           video_filepath, file_exists, cap, sct, ser,
           original_fps, frames_to_skip, processed_frame_index, source_frames,
           skip_i, ret, rgb_frame, pixel_byte_list, packet_buffer, frame_count,
           processing_time, sleep_time, raised, exit_status,
           cause, ser_opens, ser_closes, remove_calls, removes, remove_failed,
           n_grabs, n_iters, n_writes, n_sleeps, n_drops, sent, write_failed,
           warned>>

zvars == <<zScript, zFrame, zWidth, zHeight, zOut, zDone>>

skvars == <<skFps, skTarget, skSkip, skDone>>

vars == <<mvars, zvars, skvars>>

Scripts == {"screen", "video"}

\* the serializer and the skip arithmetic are not being exercised on their own
ZigzagIdle ==
  /\ zScript = "screen" /\ zFrame = NoFrame /\ zWidth = 0 /\ zHeight = 0
  /\ zOut = PyNone /\ zDone = FALSE

SkipIdle == skFps = 0 /\ skTarget = 0 /\ skSkip = 0 /\ skDone = FALSE

\* no sender is running
MainIdle ==
  /\ script = "screen" /\ pc = "idle"
  /\ prompt = "none" /\ youtube_url = "" /\ serial_port = "" /\ value_str = Empty
  /\ grid_width = 0 /\ grid_height = 0 /\ baud_rate = 0 /\ timeout = 0
  /\ target_fps = 0 /\ frame_delay = 0
  /\ video_filepath = "" /\ file_exists = FALSE
  /\ cap = "None" /\ sct = "None" /\ ser = "None"
  /\ original_fps = 0 /\ frames_to_skip = 0 /\ processed_frame_index = 0
  /\ source_frames = 0 /\ skip_i = 0 /\ ret = FALSE
  /\ rgb_frame = NoFrame /\ pixel_byte_list = PyNone /\ packet_buffer = <<>>
  /\ frame_count = 0 /\ processing_time = 0 /\ sleep_time = 0
  /\ raised = "none" /\ exit_status = -1
  /\ cause = "none" /\ ser_opens = 0 /\ ser_closes = 0
  /\ remove_calls = 0 /\ removes = 0 /\ remove_failed = FALSE
  /\ n_grabs = 0 /\ n_iters = 0
  /\ n_writes = 0 /\ n_sleeps = 0 /\ n_drops = 0
  /\ sent = <<>> /\ write_failed = FALSE /\ warned = FALSE

Init ==
  /\ script \in Scripts
  /\ pc = IF script = "video" THEN "input_url" ELSE "input_port"
  /\ prompt = "none" /\ youtube_url = "" /\ serial_port = "" /\ value_str = Empty
  /\ grid_width = 0 /\ grid_height = 0 /\ baud_rate = 0 /\ timeout = 0
  /\ target_fps = 0 /\ frame_delay = 0
  /\ video_filepath = "" /\ file_exists = FALSE
  /\ cap = "None" /\ sct = "None" /\ ser = "None"
  /\ original_fps = 0 /\ frames_to_skip = 0 /\ processed_frame_index = 0
  /\ source_frames = 0 /\ skip_i = 0 /\ ret = FALSE
  /\ rgb_frame = NoFrame /\ pixel_byte_list = PyNone /\ packet_buffer = <<>>
  /\ frame_count = 0 /\ processing_time = 0 /\ sleep_time = 0
  /\ raised = "none" /\ exit_status = -1
  /\ cause = "none" /\ ser_opens = 0 /\ ser_closes = 0
  /\ remove_calls = 0 /\ removes = 0 /\ remove_failed = FALSE
  /\ n_grabs = 0 /\ n_iters = 0
  /\ n_writes = 0 /\ n_sleeps = 0 /\ n_drops = 0
  /\ sent = <<>> /\ write_failed = FALSE /\ warned = FALSE
  /\ ZigzagIdle
  /\ SkipIdle

\* the variables grouped by what an action may leave alone
inputVars == <<prompt, youtube_url, serial_port, value_str, grid_width, grid_height,
               baud_rate, timeout, target_fps, frame_delay>>
fileVars == <<video_filepath, file_exists, remove_calls, removes, remove_failed>>
deviceVars == <<cap, sct, ser, ser_opens, ser_closes>>
sourceVars == <<original_fps, frames_to_skip, source_frames>>
readVars == <<processed_frame_index, skip_i, ret, n_grabs, n_iters>>
frameVars == <<rgb_frame, pixel_byte_list, packet_buffer, n_drops, warned>>
sendVars == <<frame_count, n_writes, sent, write_failed>>
paceVars == <<processing_time, sleep_time, n_sleeps>>
exitVars == <<raised, exit_status, cause>>

(***************************************************************************)
(* main(): the prompts, before any resource is touched                     *)
(***************************************************************************)
\* sys.exit(1) outside the try block
ExitAtStartup(why) ==
  /\ pc' = "exited"
  /\ exit_status' = 1
  /\ cause' = why
  /\ UNCHANGED raised

\* send_video_to_leds.py: youtube_url = input(...).strip()
InputUrl ==
  /\ pc = "input_url"
  /\ prompt' = "url"
  /\ \E u \in Urls :
       /\ youtube_url' = u
       /\ IF u = "" THEN ExitAtStartup("empty_url")
          ELSE pc' = "input_port" /\ UNCHANGED exitVars
  /\ UNCHANGED <<script, serial_port, value_str, grid_width, grid_height,
                 baud_rate, timeout, target_fps, frame_delay>>
  /\ UNCHANGED <<fileVars, deviceVars, sourceVars, readVars, frameVars,
                 sendVars, paceVars, zvars, skvars>>

\* serial_port = input(...).strip()
InputPort ==
  /\ pc = "input_port"
  /\ prompt' = "port"
  /\ \E p \in Ports :
       /\ serial_port' = p
       /\ IF p = "" THEN ExitAtStartup("empty_port")
          ELSE pc' = "input_width" /\ UNCHANGED exitVars
  /\ UNCHANGED <<script, youtube_url, value_str, grid_width, grid_height,
                 baud_rate, timeout, target_fps, frame_delay>>
  /\ UNCHANGED <<fileVars, deviceVars, sourceVars, readVars, frameVars,
                 sendVars, paceVars, zvars, skvars>>

\* grid_width = get_int_input("Enter target grid width", DEFAULT_GRID_WIDTH)
InputWidth ==
  /\ pc = "input_width"
  /\ prompt' = "width"
  /\ \E v \in WidthInputs :
       LET got == get_int_input(v, DEFAULT_GRID_WIDTH)
       IN  /\ value_str' = v
           /\ grid_width' = IF got.returned THEN got.value ELSE grid_width
           /\ pc' = IF got.returned THEN "input_height" ELSE pc
  /\ UNCHANGED <<script, youtube_url, serial_port, grid_height,
                 baud_rate, timeout, target_fps, frame_delay>>
  /\ UNCHANGED <<fileVars, deviceVars, sourceVars, readVars, frameVars,
                 sendVars, paceVars, exitVars, zvars, skvars>>

\* grid_height = get_int_input("Enter target grid height", DEFAULT_GRID_HEIGHT)
InputHeight ==
  /\ pc = "input_height"
  /\ prompt' = "height"
  /\ \E v \in HeightInputs :
       LET got == get_int_input(v, DEFAULT_GRID_HEIGHT)
       IN  /\ value_str' = v
           /\ grid_height' = IF got.returned THEN got.value ELSE grid_height
           /\ pc' = IF got.returned THEN "input_baud" ELSE pc
  /\ UNCHANGED <<script, youtube_url, serial_port, grid_width,
                 baud_rate, timeout, target_fps, frame_delay>>
  /\ UNCHANGED <<fileVars, deviceVars, sourceVars, readVars, frameVars,
                 sendVars, paceVars, exitVars, zvars, skvars>>

\* baud_rate = get_int_input("Enter serial baud rate", DEFAULT_BAUD_RATE)
InputBaud ==
  /\ pc = "input_baud"
  /\ prompt' = "baud"
  /\ \E v \in BaudInputs :
       LET got == get_int_input(v, DEFAULT_BAUD_RATE)
       IN  /\ value_str' = v
           /\ baud_rate' = IF got.returned THEN got.value ELSE baud_rate
           /\ pc' = IF got.returned THEN "input_timeout" ELSE pc
  /\ UNCHANGED <<script, youtube_url, serial_port, grid_width, grid_height,
                 timeout, target_fps, frame_delay>>
  /\ UNCHANGED <<fileVars, deviceVars, sourceVars, readVars, frameVars,
                 sendVars, paceVars, exitVars, zvars, skvars>>

\* timeout = get_float_input(...); the screen sender then fixes target_fps =
\* TARGET_FPS and frame_delay = 1.0 / target_fps and enters its try block,
\* the video sender goes on to prompt for the rate
InputTimeout ==
  /\ pc = "input_timeout"
  /\ prompt' = "timeout"
  /\ \E v \in TimeoutInputs :
       LET got == get_float_input(v, DEFAULT_TIMEOUT)
       IN  /\ value_str' = v
           /\ timeout' = IF got.returned THEN got.value ELSE timeout
           /\ IF ~got.returned
              THEN UNCHANGED <<pc, target_fps, frame_delay>>
              ELSE IF script = "screen"
                   THEN /\ target_fps' = TARGET_FPS
                        /\ frame_delay' = 1000000 \div TARGET_FPS
                        /\ pc' = "open_source"
                   ELSE /\ pc' = "input_fps"
                        /\ UNCHANGED <<target_fps, frame_delay>>
  /\ UNCHANGED <<script, youtube_url, serial_port, grid_width, grid_height,
                 baud_rate>>
  /\ UNCHANGED <<fileVars, deviceVars, sourceVars, readVars, frameVars,
                 sendVars, paceVars, exitVars, zvars, skvars>>

\* send_video_to_leds.py: target_fps = get_int_input(...);
\* frame_delay = 1.0 / target_fps
InputFps ==
  /\ pc = "input_fps"
  /\ prompt' = "fps"
  /\ \E v \in FpsInputs :
       LET got == get_int_input(v, DEFAULT_TARGET_FPS)
       IN  /\ value_str' = v
           /\ target_fps' = IF got.returned THEN got.value ELSE target_fps
           /\ frame_delay' = IF got.returned THEN 1000000 \div got.value
                             ELSE frame_delay
           /\ pc' = IF got.returned THEN "download" ELSE pc
  /\ UNCHANGED <<script, youtube_url, serial_port, grid_width, grid_height,
                 baud_rate, timeout>>
  /\ UNCHANGED <<fileVars, deviceVars, sourceVars, readVars, frameVars,
                 sendVars, paceVars, exitVars, zvars, skvars>>

(***************************************************************************)
(* main(): setup                                                           *)
(***************************************************************************)
\* video_filepath = download_youtube_video(youtube_url): the path of the
\* file yt-dlp wrote, or None (yt-dlp missing, failing or timing out, or the
\* file not found afterwards) and then sys.exit(1)
Download ==
  /\ pc = "download"
  /\ \E downloaded \in BOOLEAN :
       IF downloaded
       THEN /\ video_filepath' = DOWNLOAD_FILENAME
            /\ file_exists' = TRUE
            /\ pc' = "open_source"
            /\ UNCHANGED exitVars
       ELSE /\ ExitAtStartup("download_failure")
            /\ UNCHANGED <<video_filepath, file_exists>>
  /\ UNCHANGED <<script, inputVars, remove_calls, removes, remove_failed>>
  /\ UNCHANGED <<deviceVars, sourceVars, readVars, frameVars,
                 sendVars, paceVars, zvars, skvars>>

\* send_video_to_leds.py, first step of the try block: cv2.VideoCapture; when
\* it is not opened the file is removed if it exists (an OSError is only
\* reported) and sys.exit(1) is raised; otherwise the properties are read
\* and frames_to_skip is computed
OpenVideo ==
  /\ pc = "open_source" /\ script = "video"
  /\ \E opened \in BOOLEAN, removed \in BOOLEAN,
        fps \in OriginalFps, n \in 0..MaxFrames :
       IF ~opened
       THEN /\ cap' = "not_opened"
            /\ IF file_exists
               THEN /\ remove_calls' = remove_calls + 1
                    /\ file_exists' = ~removed
                    /\ removes' = IF removed THEN removes + 1 ELSE removes
                    /\ remove_failed' = ~removed
               ELSE UNCHANGED <<file_exists, remove_calls, removes, remove_failed>>
            /\ raised' = "SystemExit"
            /\ cause' = "video_open_failure"
            /\ pc' = "finally"
            /\ UNCHANGED <<sourceVars, exit_status>>
       ELSE /\ cap' = "opened"
            /\ original_fps' = fps
            /\ source_frames' = n
            /\ frames_to_skip' = FramesToSkip(fps, target_fps)
            /\ pc' = "open_serial"
            /\ UNCHANGED <<file_exists, remove_calls, removes, remove_failed,
                           exitVars>>
  /\ UNCHANGED <<script, inputVars, video_filepath, sct, ser, ser_opens,
                 ser_closes>>
  /\ UNCHANGED <<readVars, frameVars, sendVars, paceVars, zvars, skvars>>

\* send_screen_to_leds.py, first step of the try block: sct = mss.mss();
\* sys.exit(1) when len(sct.monitors) < 2
OpenScreen ==
  /\ pc = "open_source" /\ script = "screen"
  /\ sct' = "ready"
  /\ \E monitors \in {1, 2} :
       IF monitors < 2
       THEN /\ raised' = "SystemExit"
            /\ cause' = "no_monitor"
            /\ pc' = "finally"
            /\ UNCHANGED exit_status
       ELSE /\ pc' = "open_serial"
            /\ UNCHANGED exitVars
  /\ UNCHANGED <<script, inputVars, fileVars, cap, ser, ser_opens, ser_closes>>
  /\ UNCHANGED <<sourceVars, readVars, frameVars, sendVars, paceVars,
                 zvars, skvars>>

\* ser = serial.Serial(...): returns the open port or raises SerialException,
\* which the except Exception clause of the try block catches
OpenSerial ==
  /\ pc = "open_serial"
  /\ \E opened \in BOOLEAN :
       IF opened
       THEN /\ ser' = "open"
            /\ ser_opens' = ser_opens + 1
            /\ pc' = "loop"
            /\ UNCHANGED exitVars
       ELSE /\ raised' = "Exception"
            /\ cause' = "serial_open_failure"
            /\ pc' = "finally"
            /\ UNCHANGED <<ser, ser_opens, exit_status>>
  /\ UNCHANGED <<script, inputVars, fileVars, cap, sct, ser_closes>>
  /\ UNCHANGED <<sourceVars, readVars, frameVars, sendVars, paceVars,
                 zvars, skvars>>

(***************************************************************************)
(* main(): the send loop                                                   *)
(***************************************************************************)
\* while True: frame_start_time = time.monotonic(); the video sender also
\* sets ret = False before its skip loop
LoopTop ==
  /\ pc = "loop"
  /\ script = "screen" => n_grabs < MaxGrabs
  /\ pc' = "read"
  /\ n_iters' = n_iters + 1
  /\ skip_i' = 0
  /\ ret' = FALSE
  /\ UNCHANGED <<script, inputVars, fileVars, deviceVars, sourceVars,
                 processed_frame_index, n_grabs>>
  /\ UNCHANGED <<frameVars, sendVars, paceVars, exitVars, zvars, skvars>>

\* send_video_to_leds.py, one pass of for _ in range(frames_to_skip):
\* ret, frame = cap.read(); processed_frame_index += 1; a failed read breaks
\* the skip loop and then, by if not ret: break, the main loop; the frame of
\* the last pass is the one kept
ReadFrame ==
  /\ pc = "read" /\ script = "video"
  /\ skip_i < SkipRange(frames_to_skip)
  /\ LET got == processed_frame_index < source_frames
     IN  /\ ret' = got
         /\ processed_frame_index' = processed_frame_index + 1
         /\ skip_i' = skip_i + 1
         /\ IF ~got
            THEN pc' = "finally" /\ cause' = "end_of_video"
            ELSE /\ pc' = IF skip_i + 1 = SkipRange(frames_to_skip)
                          THEN "process" ELSE "read"
                 /\ UNCHANGED cause
  /\ UNCHANGED <<script, inputVars, fileVars, deviceVars, sourceVars, n_grabs,
                 n_iters, raised, exit_status>>
  /\ UNCHANGED <<frameVars, sendVars, paceVars, zvars, skvars>>

\* send_screen_to_leds.py: sct_img = sct.grab(monitor), np.array, BGRA2BGR
GrabScreen ==
  /\ pc = "read" /\ script = "screen"
  /\ n_grabs' = n_grabs + 1
  /\ ret' = TRUE
  /\ pc' = "process"
  /\ UNCHANGED <<script, inputVars, fileVars, deviceVars, sourceVars,
                 processed_frame_index, skip_i, n_iters>>
  /\ UNCHANGED <<frameVars, sendVars, paceVars, exitVars, zvars, skvars>>

\* the loop body as a plausible slip would have it: a frame the serializer
\* refuses is processed again, without a new read
ProcessFrameRetriesDropped ==
  /\ pc = "process"
  /\ \E seed \in Seeds, shape \in LibShapes :
       LET resized == Resized(RawFrame(seed), grid_width, grid_height, shape)
           rgb == CvtColorBGR2RGB(resized)
           list == prepare_pixel_data_standard_zigzag(script, rgb, grid_width,
                                                      grid_height)
           packet == BuildPacket(list.data)
       IN  /\ rgb_frame' = rgb
           /\ pixel_byte_list' = list
           /\ IF list.none
              THEN /\ n_drops' = IF n_drops = 0 THEN 1 ELSE n_drops
                   /\ pc' = "process"
                   /\ UNCHANGED <<packet_buffer, warned>>
              ELSE /\ packet_buffer' = packet
                   /\ warned' = (warned \/
                        Len(packet) # 2 + (grid_width * grid_height * 3))
                   /\ pc' = "send"
                   /\ UNCHANGED n_drops
  /\ UNCHANGED <<script, inputVars, fileVars, deviceVars, sourceVars, readVars>>
  /\ UNCHANGED <<sendVars, paceVars, exitVars, zvars, skvars>>

\* cv2.resize, cv2.cvtColor(BGR2RGB), prepare_pixel_data_standard_zigzag;
\* on None the frame is skipped (continue); otherwise the packet is built
\* and its length compared with 2 + grid_width * grid_height * 3, a
\* difference being only printed
ProcessFrame ==
  /\ pc = "process"
  /\ \E seed \in Seeds, shape \in LibShapes :
       LET resized == Resized(RawFrame(seed), grid_width, grid_height, shape)
           rgb == CvtColorBGR2RGB(resized)
           list == prepare_pixel_data_standard_zigzag(script, rgb, grid_width,
                                                      grid_height)
           packet == BuildPacket(list.data)
       IN  /\ rgb_frame' = rgb
           /\ pixel_byte_list' = list
           /\ IF list.none
              THEN /\ n_drops' = n_drops + 1
                   /\ pc' = "loop"
                   /\ UNCHANGED <<packet_buffer, warned>>
              ELSE /\ packet_buffer' = packet
                   /\ warned' = (warned \/
                        Len(packet) # 2 + (grid_width * grid_height * 3))
                   /\ pc' = "send"
                   /\ UNCHANGED n_drops
  /\ UNCHANGED <<script, inputVars, fileVars, deviceVars, sourceVars, readVars>>
  /\ UNCHANGED <<sendVars, paceVars, exitVars, zvars, skvars>>

\* the send as a plausible slip would have it: a failed write is reported
\* and the loop goes on (continue in place of break)
SendPacketKeepsGoing ==
  /\ pc = "send"
  /\ n_writes' = n_writes + 1
  /\ \E outcome \in {"written", "timeout", "serial_error", "error"} :
       IF outcome = "written"
       THEN /\ frame_count' = frame_count + 1
            /\ sent' = Append(sent, processed_frame_index)
            /\ pc' = "pace"
            /\ UNCHANGED <<write_failed, cause>>
       ELSE /\ write_failed' = TRUE
            /\ pc' = "loop"
            /\ UNCHANGED <<frame_count, sent, cause>>
  /\ UNCHANGED <<script, inputVars, fileVars, deviceVars, sourceVars, readVars,
                 raised, exit_status>>
  /\ UNCHANGED <<frameVars, paceVars, zvars, skvars>>

\* the send as a plausible slip would have it: frame_count += 1 placed
\* before ser.write, so that a write that raises is counted too
SendPacketCountsFirst ==
  /\ pc = "send"
  /\ n_writes' = n_writes + 1
  /\ frame_count' = frame_count + 1
  /\ \E outcome \in {"written", "timeout", "serial_error", "error"} :
       IF outcome = "written"
       THEN /\ sent' = Append(sent, processed_frame_index)
            /\ pc' = "pace"
            /\ UNCHANGED <<write_failed, cause>>
       ELSE /\ write_failed' = TRUE
            /\ cause' = "write_" \o outcome
            /\ pc' = "finally"
            /\ UNCHANGED sent
  /\ UNCHANGED <<script, inputVars, fileVars, deviceVars, sourceVars, readVars,
                 raised, exit_status>>
  /\ UNCHANGED <<frameVars, paceVars, zvars, skvars>>

\* try: ser.write(packet_buffer); frame_count += 1; a SerialTimeoutException,
\* a SerialException or any other Exception is reported and breaks the loop
SendPacket ==
  /\ pc = "send"
  /\ n_writes' = n_writes + 1
  /\ \E outcome \in {"written", "timeout", "serial_error", "error"} :
       IF outcome = "written"
       THEN /\ frame_count' = frame_count + 1
            /\ sent' = Append(sent, processed_frame_index)
            /\ pc' = "pace"
            /\ UNCHANGED <<write_failed, cause>>
       ELSE /\ write_failed' = TRUE
            /\ cause' = "write_" \o outcome
            /\ pc' = "finally"
            /\ UNCHANGED <<frame_count, sent>>
  /\ UNCHANGED <<script, inputVars, fileVars, deviceVars, sourceVars, readVars,
                 raised, exit_status>>
  /\ UNCHANGED <<frameVars, paceVars, zvars, skvars>>

\* the pacer as a plausible slip would have it: the lateness of the
\* iteration before is made up for (a deadline that advances by frame_delay)
PaceCatchUp ==
  /\ pc = "pace"
  /\ \E e \in Elapsed :
       LET debt == IF sleep_time < 0 THEN sleep_time ELSE 0
       IN  /\ processing_time' = e
           /\ sleep_time' = frame_delay - e + debt
           /\ n_sleeps' = IF frame_delay - e + debt > 0
                          THEN n_sleeps + 1 ELSE n_sleeps
  /\ pc' = "loop"
  /\ UNCHANGED <<script, inputVars, fileVars, deviceVars, sourceVars, readVars>>
  /\ UNCHANGED <<frameVars, sendVars, exitVars, zvars, skvars>>

\* processing_time = frame_end_time - frame_start_time;
\* sleep_time = frame_delay - processing_time;
\* if sleep_time > 0: time.sleep(sleep_time)
Pace ==
  /\ pc = "pace"
  /\ \E e \in Elapsed :
       /\ processing_time' = e
       /\ sleep_time' = frame_delay - e
       /\ n_sleeps' = IF frame_delay - e > 0 THEN n_sleeps + 1 ELSE n_sleeps
  /\ pc' = "loop"
  /\ UNCHANGED <<script, inputVars, fileVars, deviceVars, sourceVars, readVars>>
  /\ UNCHANGED <<frameVars, sendVars, exitVars, zvars, skvars>>

TryBlock == {"open_source", "open_serial", "loop", "read", "process", "send",
             "pace"}

\* Ctrl+C anywhere in the try block: except KeyboardInterrupt
Interrupt ==
  /\ pc \in TryBlock
  /\ raised' = "KeyboardInterrupt"
  /\ cause' = "interrupt"
  /\ pc' = "finally"
  /\ UNCHANGED <<script, inputVars, fileVars, deviceVars, sourceVars, readVars>>
  /\ UNCHANGED <<frameVars, sendVars, paceVars, exit_status, zvars, skvars>>

\* an exception of a library call in the loop (the grab, the read, the
\* resize, the conversion): except Exception
UnexpectedError ==
  /\ pc \in {"read", "process"}
  /\ raised' = "Exception"
  /\ cause' = "exception"
  /\ pc' = "finally"
  /\ UNCHANGED <<script, inputVars, fileVars, deviceVars, sourceVars, readVars>>
  /\ UNCHANGED <<frameVars, sendVars, paceVars, exit_status, zvars, skvars>>

(***************************************************************************)
(* main(): the finally block and the end of the process                    *)
(***************************************************************************)
\* the cleanup as a plausible slip would have it: placed after the try
\* statement's normal end and in except Exception, so that an interrupt
\* leaves the resources as they are
FinallyNotOnInterrupt ==
  /\ pc = "finally"
  /\ cap' = IF cap = "opened" /\ raised # "KeyboardInterrupt"
            THEN "released" ELSE cap
  /\ ser' = IF ser = "open" /\ raised # "KeyboardInterrupt"
            THEN "closed" ELSE ser
  /\ ser_closes' = IF ser = "open" /\ raised # "KeyboardInterrupt"
                   THEN ser_closes + 1 ELSE ser_closes
  /\ \E removed \in BOOLEAN :
       IF video_filepath # "" /\ file_exists /\ raised # "KeyboardInterrupt"
       THEN /\ remove_calls' = remove_calls + 1
            /\ file_exists' = ~removed
            /\ removes' = IF removed THEN removes + 1 ELSE removes
            /\ remove_failed' = ~removed
       ELSE UNCHANGED <<file_exists, remove_calls, removes, remove_failed>>
  /\ exit_status' = IF raised = "SystemExit" THEN 1 ELSE 0
  /\ pc' = "exited"
  /\ UNCHANGED <<script, inputVars, video_filepath, sct, ser_opens,
                 sourceVars, readVars, raised, cause>>
  /\ UNCHANGED <<frameVars, sendVars, paceVars, zvars, skvars>>

\* the cleanup as a plausible slip would have it: os.remove(video_filepath)
\* without the os.path.exists test, so that a file already removed makes
\* os.remove raise FileNotFoundError (an OSError, reported)
FinallyRemovesUnchecked ==
  /\ pc = "finally"
  /\ cap' = IF cap = "opened" THEN "released" ELSE cap
  /\ ser' = IF ser = "open" THEN "closed" ELSE ser
  /\ ser_closes' = IF ser = "open" THEN ser_closes + 1 ELSE ser_closes
  /\ \E removed \in BOOLEAN :
       IF video_filepath # ""
       THEN /\ remove_calls' = remove_calls + 1
            /\ file_exists' = (file_exists /\ ~removed)
            /\ removes' = IF file_exists /\ removed THEN removes + 1 ELSE removes
            /\ remove_failed' = ~(file_exists /\ removed)
       ELSE UNCHANGED <<file_exists, remove_calls, removes, remove_failed>>
  /\ exit_status' = IF raised = "SystemExit" THEN 1 ELSE 0
  /\ pc' = "exited"
  /\ UNCHANGED <<script, inputVars, video_filepath, sct, ser_opens,
                 sourceVars, readVars, raised, cause>>
  /\ UNCHANGED <<frameVars, sendVars, paceVars, zvars, skvars>>

\* if cap and cap.isOpened(): cap.release()
\* if ser and ser.is_open: ser.close()
\* if video_filepath and os.path.exists(video_filepath): os.remove, an
\* OSError being only reported.  Then main() returns and the process ends
\* with status 0, unless sys.exit(1) is in flight.
Finally ==
  /\ pc = "finally"
  /\ cap' = IF cap = "opened" THEN "released" ELSE cap
  /\ ser' = IF ser = "open" THEN "closed" ELSE ser
  /\ ser_closes' = IF ser = "open" THEN ser_closes + 1 ELSE ser_closes
  /\ \E removed \in BOOLEAN :
       IF video_filepath # "" /\ file_exists
       THEN /\ remove_calls' = remove_calls + 1
            /\ file_exists' = ~removed
            /\ removes' = IF removed THEN removes + 1 ELSE removes
            /\ remove_failed' = ~removed
       ELSE UNCHANGED <<file_exists, remove_calls, removes, remove_failed>>
  /\ exit_status' = IF raised = "SystemExit" THEN 1 ELSE 0
  /\ pc' = "exited"
  /\ UNCHANGED <<script, inputVars, video_filepath, sct, ser_opens,
                 sourceVars, readVars, raised, cause>>
  /\ UNCHANGED <<frameVars, sendVars, paceVars, zvars, skvars>>

Next ==
  \/ InputUrl \/ InputPort \/ InputWidth \/ InputHeight \/ InputBaud
  \/ InputTimeout \/ InputFps
  \/ Download \/ OpenVideo \/ OpenScreen \/ OpenSerial
  \/ LoopTop \/ ReadFrame \/ GrabScreen \/ ProcessFrame \/ SendPacket \/ Pace
  \/ Interrupt \/ UnexpectedError
  \/ Finally

Spec == Init /\ [][Next]_vars

(***************************************************************************)
(* The send loop of the video sender from its first iteration on, over a   *)
(* 2 x 2 grid: the state main() is in when it reaches while True, for      *)
(* every rate and every length of the file.  The loop is never left        *)
(* standing: every statement of its body returns (cap.read answers,        *)
(* ser.write returns or raises within write_timeout, time.sleep is         *)
(* finite), so a step of the loop that can be taken is taken.              *)
(***************************************************************************)
VideoLoopEntry ==
  /\ script = "video" /\ pc = "loop"
  /\ prompt = "fps" /\ youtube_url = "https://youtu.be/v"
  /\ serial_port = "COM3"
  /\ value_str \in {Empty, Typed(30)}
  /\ grid_width = 2 /\ grid_height = 2
  /\ baud_rate = DEFAULT_BAUD_RATE /\ timeout = DEFAULT_TIMEOUT
  /\ target_fps = get_float_input(value_str, DEFAULT_TARGET_FPS).value
  /\ frame_delay = 1000000 \div target_fps
  /\ video_filepath = DOWNLOAD_FILENAME /\ file_exists = TRUE
  /\ cap = "opened" /\ sct = "None" /\ ser = "open"
  /\ original_fps \in OriginalFps
  /\ frames_to_skip = FramesToSkip(original_fps, target_fps)
  /\ processed_frame_index = 0
  /\ source_frames \in 0..MaxFrames
  /\ skip_i = 0 /\ ret = FALSE
  /\ rgb_frame = NoFrame /\ pixel_byte_list = PyNone /\ packet_buffer = <<>>
  /\ frame_count = 0 /\ processing_time = 0 /\ sleep_time = 0
  /\ raised = "none" /\ exit_status = -1
  /\ cause = "none" /\ ser_opens = 1 /\ ser_closes = 0
  /\ remove_calls = 0 /\ removes = 0 /\ remove_failed = FALSE
  /\ n_grabs = 0 /\ n_iters = 0
  /\ n_writes = 0 /\ n_sleeps = 0 /\ n_drops = 0
  /\ sent = <<>> /\ write_failed = FALSE /\ warned = FALSE

VideoLoopInit == VideoLoopEntry /\ ZigzagIdle /\ SkipIdle

LoopStep == LoopTop \/ ReadFrame \/ ProcessFrame \/ SendPacket \/ Pace

VideoLoopNext ==
  \/ LoopTop \/ ReadFrame \/ ProcessFrame \/ SendPacket \/ Pace
  \/ Interrupt \/ UnexpectedError
  \/ Finally

SpecVideoLoop == VideoLoopInit /\ [][VideoLoopNext]_vars /\ WF_vars(LoopStep)

(***************************************************************************)
(* The serializer on its own: every grid up to MaxDim x MaxDim over a      *)
(* palette of two pixels, and the grid of the written example              *)
(***************************************************************************)
\* pixel values the enumerated grids are painted with
Palette == {<<1, 2, 3>>, <<4, 5, 6>>}

\* every frame of shape (h, w, 3) over the palette
FramesOver(h, w) ==
  { [h |-> h, w |-> w, channels |-> 3, px |-> p] :
      p \in [0..(h - 1) -> [0..(w - 1) -> Palette]] }

\* the 2x2 grid [[(1,2,3),(4,5,6)],[(7,8,9),(10,11,12)]]
ExampleFrame ==
  [h |-> 2, w |-> 2, channels |-> 3,
   px |-> [y \in 0..1 |-> [x \in 0..1 |->
             IF y = 0 THEN (IF x = 0 THEN <<1, 2, 3>> ELSE <<4, 5, 6>>)
             ELSE (IF x = 0 THEN <<7, 8, 9>> ELSE <<10, 11, 12>>)]]]

ZigzagInit ==
  /\ zScript \in Scripts
  /\ zWidth \in 1..MaxDim
  /\ zHeight \in 1..MaxDim
  /\ zFrame \in FramesOver(zHeight, zWidth) \cup
                 (IF zWidth = 2 /\ zHeight = 2 THEN {ExampleFrame} ELSE {})
  /\ zOut = PyNone
  /\ zDone = FALSE
  /\ MainIdle
  /\ SkipIdle

ZigzagCall ==
  /\ ~zDone
  /\ zOut' = prepare_pixel_data_standard_zigzag(zScript, zFrame, zWidth, zHeight)
  /\ zDone' = TRUE
  /\ UNCHANGED <<zScript, zFrame, zWidth, zHeight, mvars, skvars>>

SpecZigzag == ZigzagInit /\ [][ZigzagCall]_vars

(***************************************************************************)
(* The frame-skip arithmetic on its own: native rates from -1 to           *)
(* MaxQuarterFps / 4 frames per second in steps of 0.25, the NTSC rates,   *)
(* and target rates from 1 to MaxTargetFps                                 *)
(***************************************************************************)
MaxQuarterFps == 124
MaxTargetFps == 30

NativeRates ==
  {-1000} \cup {250 * k : k \in 0..MaxQuarterFps} \cup {23976, 29970, 59940}

SkipInit ==
  /\ skFps \in NativeRates
  /\ skTarget \in 1..MaxTargetFps
  /\ skSkip = 0
  /\ skDone = FALSE
  /\ MainIdle
  /\ ZigzagIdle

SkipCall ==
  /\ ~skDone
  /\ skSkip' = FramesToSkip(skFps, skTarget)
  /\ skDone' = TRUE
  /\ UNCHANGED <<skFps, skTarget, mvars, zvars>>

SpecSkip == SkipInit /\ [][SkipCall]_vars

(***************************************************************************)
(* C1: the serializer visits rows 0..height-1 in order, even rows from     *)
(* column 0 up and odd rows from column width-1 down, and emits each pixel *)
(* as (R, G, B): byte c of the pixel at (y, x) is at offset                *)
(* 3*(y*width + k) + c, k = x on even rows and width-1-x on odd rows; the  *)
(* 2x2 example yields 1,2,3,4,5,6,10,11,12,7,8,9.                          *)
(***************************************************************************)
ZigzagSlot(y, x, w) == y * w + (IF y % 2 = 0 THEN x ELSE w - 1 - x)

C1_ZigzagOrder ==
  zDone =>
    /\ ~zOut.none
    /\ Len(zOut.data) = 3 * zWidth * zHeight
    /\ \A y \in 0..(zHeight - 1) : \A x \in 0..(zWidth - 1) : \A c \in 1..3 :
         zOut.data[3 * ZigzagSlot(y, x, zWidth) + c] = zFrame.px[y][x][c]
    /\ (zFrame = ExampleFrame =>
          zOut.data = <<1, 2, 3, 4, 5, 6, 10, 11, 12, 7, 8, 9>>)

\* a grid with an odd row of more than one pixel has been serialized
C1_Witness ==
  /\ zDone
  /\ zHeight >= 2
  /\ zWidth >= 2
  /\ zFrame.px[1][0] # zFrame.px[1][1]
  /\ ~zOut.none

(***************************************************************************)
(* C2: splitting the payload into rows of 3*width values, each row into    *)
(* pixels of 3 values, and reversing the pixels of every odd row gives     *)
(* back the grid that was serialized.                                      *)
(***************************************************************************)
Reverse(s) == [i \in 1..Len(s) |-> s[Len(s) + 1 - i]]

\* the pixels of one row of 3*w values, in payload order
RowPixels(row, w) == [k \in 1..w |-> SubSeq(row, 3 * (k - 1) + 1, 3 * k)]

DeZigzag(payload, w, h) ==
  [y \in 0..(h - 1) |->
     LET row == SubSeq(payload, 3 * w * y + 1, 3 * w * (y + 1))
         pix == IF y % 2 = 0 THEN RowPixels(row, w) ELSE Reverse(RowPixels(row, w))
     IN  [x \in 0..(w - 1) |-> pix[x + 1]]]

C2_RoundTrip ==
  (zDone /\ ~zOut.none) => DeZigzag(zOut.data, zWidth, zHeight) = zFrame.px

\* a grid that is not left-right symmetric in an odd row has made the round trip
C2_Witness ==
  /\ zDone
  /\ ~zOut.none
  /\ zHeight = MaxDim
  /\ zWidth = MaxDim
  /\ zFrame.px[1][0] # zFrame.px[1][zWidth - 1]

(***************************************************************************)
(* C3: every packet handed to ser.write, in either sender, is              *)
(* 2 + 3*width*height values long, starts with 0xA5, 0x5A, and carries     *)
(* after them the zigzag payload of the iteration's frame (of the frame as *)
(* resized again by the serializer, when the screen sender's serializer    *)
(* had to correct its shape); the length warning is never printed.         *)
(***************************************************************************)
\* the frame whose pixels the serializer emitted in this iteration
SerializedFrame ==
  IF Mismatch(rgb_frame, grid_width, grid_height)
  THEN CvResize(rgb_frame, grid_width, grid_height)
  ELSE rgb_frame

C3_PacketFormat ==
  pc = "send" =>
    /\ Len(packet_buffer) = 2 + 3 * grid_width * grid_height
    /\ packet_buffer[1] = 165
    /\ packet_buffer[2] = 90
    /\ \A y \in 0..(grid_height - 1) : \A x \in 0..(grid_width - 1) :
         \A c \in 1..3 :
           packet_buffer[2 + 3 * ZigzagSlot(y, x, grid_width) + c]
             = SerializedFrame.px[y][x][c]
    /\ ~warned

\* a second packet of the video sender is about to be written
C3_Witness ==
  /\ pc = "send"
  /\ script = "video"
  /\ frame_count >= 1
  /\ grid_width = 2
  /\ grid_height = 3

(***************************************************************************)
(* C4: the video sender processes only the last frame of each group of     *)
(* frames_to_skip reads: a frame reaches processing only at a 1-based      *)
(* source position that is a multiple of frames_to_skip; the positions     *)
(* written are increasing multiples of frames_to_skip within the file;     *)
(* when the run ends by end of video without a dropped frame they are      *)
(* exactly skip, 2*skip, ..., floor(N/skip)*skip; and the loop ends on the *)
(* first failed read, discarding or keeping, with nothing written for the  *)
(* incomplete group.                                                       *)
(***************************************************************************)
C4_FrameSkip ==
  script = "video" =>
    /\ pc \in {"process", "send"} =>
         /\ ret
         /\ skip_i = frames_to_skip
         /\ processed_frame_index % frames_to_skip = 0
         /\ processed_frame_index <= source_frames
    /\ \A i \in 1..Len(sent) :
         /\ sent[i] % frames_to_skip = 0
         /\ sent[i] <= source_frames
         /\ i > 1 => sent[i - 1] < sent[i]
    /\ cause = "end_of_video" =>
         /\ pc \in {"finally", "exited"}
         /\ ~ret
         /\ processed_frame_index = source_frames + 1
         /\ n_writes = Len(sent)
         /\ n_drops = 0 =>
              sent = [i \in 1..(source_frames \div frames_to_skip) |->
                        i * frames_to_skip]

\* a file of 4 frames read in groups of 3: frame 3 was sent and the read
\* that failed was a discarding one
C4_Witness ==
  /\ script = "video"
  /\ pc = "exited"
  /\ cause = "end_of_video"
  /\ frames_to_skip = 3
  /\ source_frames = 4
  /\ sent = <<3>>

(***************************************************************************)
(* C5: frames_to_skip is 1 when the native rate is zero or negative and    *)
(* otherwise max(1, k), k the integer nearest to F_native / F_target (of   *)
(* two equally near, the even one); it is always at least 1, and 30/5      *)
(* gives 6, 0 gives 1, 24/24 gives 1.                                      *)
(***************************************************************************)
Abs(a) == IF a >= 0 THEN a ELSE -a

\* k is the integer nearest to n / d, the even one of two equally near
IsNearest(k, n, d) ==
  /\ 2 * Abs(k * d - n) <= d
  /\ 2 * Abs(k * d - n) = d => k % 2 = 0

C5_FramesToSkip ==
  skDone =>
    /\ skSkip \in Nat
    /\ skSkip >= 1
    /\ skFps <= 0 => skSkip = 1
    /\ skFps > 0 =>
         \E k \in 0..(skFps \div (1000 * skTarget) + 1) :
           /\ IsNearest(k, skFps, 1000 * skTarget)
           /\ skSkip = IF k >= 1 THEN k ELSE 1
    /\ (skFps = 30000 /\ skTarget = 5) => skSkip = 6
    /\ (skFps = 24000 /\ skTarget = 24) => skSkip = 1

\* 30 frames per second sent at 5: every sixth frame
C5_Witness ==
  /\ skDone
  /\ skFps = 30000
  /\ skTarget = 5
  /\ skSkip = 6

(***************************************************************************)
(* C6: a ser.write that raises ends the send loop in that iteration, and   *)
(* after it there is no further write, read, grab or pacing sleep, and the *)
(* sent-frame count stays as it is.                                        *)
(***************************************************************************)
C6_WriteFailureFatal ==
  [][ /\ write_failed' => pc' \in {"finally", "exited"}
      /\ write_failed =>
           /\ n_writes' = n_writes
           /\ processed_frame_index' = processed_frame_index
           /\ n_grabs' = n_grabs
           /\ n_sleeps' = n_sleeps
           /\ frame_count' = frame_count ]_vars

\* a run that had sent a frame ended on a failed write
C6_Witness ==
  /\ write_failed
  /\ pc = "exited"
  /\ frame_count >= 1
  /\ n_writes = frame_count + 1

(***************************************************************************)
(* C7 as claimed: however a run ends once its try block was entered, at    *)
(* the end of the process the serial connection is not open, the video     *)
(* source is released and the downloaded file no longer exists.            *)
(***************************************************************************)
StartupExits == {"empty_url", "empty_port", "download_failure"}

EndedAfterSetup == pc = "exited" /\ cause \notin StartupExits

C7_Original ==
  EndedAfterSetup =>
    /\ ser # "open"
    /\ cap # "opened"
    /\ ~file_exists

(***************************************************************************)
(* C7 as amended: ... the serial connection is not open, the video source  *)
(* is released, and the downloaded file no longer exists unless the last   *)
(* os.remove on it raised OSError, which is reported and leaves the file.  *)
(***************************************************************************)
C7_CleanupRuns ==
  EndedAfterSetup =>
    /\ ser # "open"
    /\ cap # "opened"
    /\ file_exists => (remove_failed /\ remove_calls >= 1)
    /\ ~file_exists => (video_filepath # "" => removes >= 1)

\* an interrupt in the loop of the video sender, after a frame was sent:
\* the port is closed, the capture released, the file gone
C7_Witness ==
  /\ pc = "exited"
  /\ cause = "interrupt"
  /\ frame_count >= 1
  /\ ser = "closed"
  /\ cap = "released"
  /\ video_filepath # ""
  /\ ~file_exists

(***************************************************************************)
(* C8 as claimed: per run the serial connection is opened at most once and *)
(* closed exactly once if opened, and the downloaded file is removed       *)
(* exactly once.                                                           *)
(***************************************************************************)
C8_Original ==
  /\ ser_opens <= 1
  /\ ser_closes <= ser_opens
  /\ EndedAfterSetup =>
       /\ ser_closes = ser_opens
       /\ video_filepath # "" => (removes = 1 /\ remove_calls = 1)

(***************************************************************************)
(* C8 as amended: the connection is opened at most once and closed exactly *)
(* once if opened; the file is removed at most once, and exactly once      *)
(* unless os.remove raises OSError; os.remove is called only on a file     *)
(* that exists, so a cleanup step that finds the connection never opened   *)
(* or the file already absent makes no close or remove call; a second      *)
(* os.remove call happens only after the first one failed.                 *)
(***************************************************************************)
C8_ExactlyOnce ==
  /\ ser_opens <= 1
  /\ ser_closes <= ser_opens
  /\ removes <= 1
  /\ remove_calls <= 2
  /\ remove_calls = 2 => cause = "video_open_failure"
  /\ removes = 1 => (~file_exists /\ ~remove_failed)
  /\ (removes = 0 /\ remove_calls > 0) => (remove_failed /\ file_exists)
  /\ remove_calls = 0 => ~remove_failed
  /\ EndedAfterSetup =>
       /\ ser_closes = ser_opens
       /\ ser = IF ser_opens = 1 THEN "closed" ELSE "None"
       /\ video_filepath # "" => removes = IF file_exists THEN 0 ELSE 1

\* the could-not-open-video path removed the file and the final cleanup,
\* finding it absent and no port opened, did nothing more
C8_Witness ==
  /\ pc = "exited"
  /\ cause = "video_open_failure"
  /\ removes = 1
  /\ remove_calls = 1
  /\ ~file_exists
  /\ ser_opens = 0
  /\ ser_closes = 0

(***************************************************************************)
(* C9 as claimed: the exit status is nonzero when the run ends for an      *)
(* empty port, a download failure, a video or a serial port that cannot be *)
(* opened, or a failed write, and zero when it ends by end of video or by  *)
(* a user interrupt.                                                       *)
(***************************************************************************)
ErrorCauses ==
  {"empty_port", "download_failure", "video_open_failure",
   "serial_open_failure", "write_timeout", "write_serial_error", "write_error"}

C9_ExitStatus ==
  pc = "exited" =>
    /\ cause \in ErrorCauses => exit_status # 0
    /\ cause \in {"end_of_video", "interrupt"} => exit_status = 0

(***************************************************************************)
(* C10 as claimed: an empty port, or a non-positive grid width or height   *)
(* typed at its prompt, ends the program with a nonzero status before any  *)
(* resource is opened.                                                     *)
(***************************************************************************)
NoResourceOpened ==
  /\ video_filepath = "" /\ ~file_exists /\ cause # "download_failure"
  /\ cap = "None" /\ sct = "None" /\ ser = "None" /\ ser_opens = 0

EmptyPortEntered == prompt = "port" /\ serial_port = ""

NonPositiveDimensionEntered ==
  /\ prompt \in {"width", "height"}
  /\ value_str.kind = "int"
  /\ value_str.val <= 0

FatalAtStartup == pc = "exited" /\ exit_status # 0 /\ NoResourceOpened

C10_Original ==
  (EmptyPortEntered \/ NonPositiveDimensionEntered) => FatalAtStartup

(***************************************************************************)
(* C10 as amended: an empty port ends the program with status 1 before any *)
(* resource is opened; a non-positive (or non-integer) grid width or       *)
(* height is reported and asked for again, the program still running with  *)
(* no resource opened and the dimension not set, so the width and height   *)
(* the program goes on with are positive.                                  *)
(***************************************************************************)
C10_ConfigError ==
  /\ EmptyPortEntered => (FatalAtStartup /\ exit_status = 1)
  /\ NonPositiveDimensionEntered =>
       /\ pc = "input_" \o prompt
       /\ exit_status = -1
       /\ NoResourceOpened
       /\ prompt = "width" => grid_width = 0
       /\ prompt = "height" => grid_height = 0
  /\ pc \notin {"input_url", "input_port", "input_width", "exited"}
       => grid_width > 0
  /\ pc \notin {"input_url", "input_port", "input_width", "input_height",
                "exited"}
       => grid_height > 0
  /\ ~NoResourceOpened /\ cause # "download_failure"
       => (grid_width > 0 /\ grid_height > 0)

\* a width of 0 was typed: the program is at the width prompt again
C10_Witness ==
  /\ prompt = "width"
  /\ value_str = Typed(0)
  /\ pc = "input_width"
  /\ exit_status = -1

(***************************************************************************)
(* C11.  A frame handed to the serializer with the wrong shape             *)
(***************************************************************************)
\* a step of the loop body that ran the serializer on a new frame
Serialized == pc = "process" /\ pc' \in {"loop", "send"}

\* the frame of this iteration was dropped: nothing written, nothing
\* counted, the loop at its top again
DroppedFrame ==
  /\ pixel_byte_list'.none
  /\ pc' = "loop"
  /\ n_drops' = n_drops + 1
  /\ UNCHANGED <<packet_buffer, n_writes, sent, frame_count, cause, raised>>

\* C11: whenever the serializer is handed a frame whose height, width or
\* channel count differs from the grid, the frame is resampled once to the
\* grid; if the resampled frame still differs (as one with four channels
\* does) the frame is dropped, nothing being written or counted and the loop
\* going on; otherwise the resampled frame is the one serialized.
C11_CorrectiveResample ==
  [][(Serialized /\ Mismatch(rgb_frame', grid_width, grid_height))
       => LET again == CvResize(rgb_frame', grid_width, grid_height)
          IN  IF Mismatch(again, grid_width, grid_height)
              THEN DroppedFrame
              ELSE /\ pixel_byte_list' = PyList(ZigzagRows(again, grid_width, grid_height, 0))
                   /\ pc' = "send"]_vars

(***************************************************************************)
(* C12.  The pacer.  Times are in microseconds.                            *)
(***************************************************************************)
\* the pacing step of an iteration that has sent its packet
Paced == pc = "pace" /\ pc' = "loop"

\* how long time.sleep blocks in the pacing step
Blocked == IF n_sleeps' = n_sleeps + 1 THEN sleep_time' ELSE 0

\* C12: in every iteration that sends a packet, with D = 1 / target_fps and
\* E the time from the iteration's start to the end of its send, the loop
\* blocks for D - E when E < D and for 0 when E >= D, whatever the
\* iterations before did; with D = 200 ms, E = 50 ms blocks 150 ms and
\* E = 250 ms blocks 0 ms.
C12_Pacer ==
  [][Paced
       => LET D == 1000000 \div target_fps
              E == processing_time'
          IN  /\ frame_delay = D
              /\ n_sleeps' \in {n_sleeps, n_sleeps + 1}
              /\ Blocked = IF E < D THEN D - E ELSE 0
              /\ (E < D) <=> (n_sleeps' = n_sleeps + 1)
              /\ (D = 200000 /\ E = 50000) => Blocked = 150000
              /\ (D = 200000 /\ E = 250000) => Blocked = 0]_vars

\* a second packet sent in time (150 ms slept) after a first that was late
C12_Witness ==
  /\ pc = "loop"
  /\ frame_delay = 200000
  /\ frame_count = 2
  /\ n_sleeps = 1
  /\ processing_time = 50000
  /\ sleep_time = 150000

(***************************************************************************)
(* C13.  frame_count and the writes that returned                          *)
(***************************************************************************)
\* source frames read so far: the read attempts, less the one that failed
FramesRead ==
  IF processed_frame_index > source_frames THEN source_frames
  ELSE processed_frame_index

\* frame_count is the number of writes that returned
CountsWrites ==
  /\ frame_count = Len(sent)
  /\ n_writes = frame_count + (IF write_failed THEN 1 ELSE 0)
  /\ script = "video"
       => IF frames_to_skip > 0
          THEN frame_count <= FramesRead \div frames_to_skip
          ELSE frame_count = 0

\* frame_count moves only by one, in the step of a write that returned
CountStep ==
  /\ frame_count' # frame_count
       => /\ frame_count' = frame_count + 1
          /\ pc = "send" /\ pc' = "pace"
          /\ n_writes' = n_writes + 1
          /\ write_failed' = write_failed
  /\ (pc = "send" /\ pc' = "pace") => frame_count' = frame_count + 1
  /\ (n_drops' # n_drops \/ write_failed' # write_failed \/ cause' # cause)
       => frame_count' = frame_count

\* C13: in both senders frame_count always equals the number of serial
\* writes that returned without error: it is 0 at the start, goes up by
\* exactly 1 in the step of each write that returns, is left alone by a
\* failed write, a dropped frame, the end of the video and an interrupt, so
\* the count printed at cleanup is the number of packets written; in the
\* video sender it never exceeds the frames read divided by frames_to_skip.
C13_FrameCount == [](CountsWrites) /\ [][CountStep]_vars

\* a video run that dropped a frame, sent one and ended on a failed write
C13_Witness ==
  /\ pc = "exited"
  /\ script = "video"
  /\ frame_count = 1
  /\ n_drops = 1
  /\ write_failed
  /\ n_writes = 2

(***************************************************************************)
(* C14.  The send loop over a video of source_frames frames ends           *)
(***************************************************************************)
InLoop == pc \in {"loop", "read", "process", "send", "pace"}

\* iterations and read attempts stay within what the file allows
LoopBounds ==
  /\ processed_frame_index <= source_frames + 1
  /\ frames_to_skip > 0 => n_iters <= (source_frames \div frames_to_skip) + 1
  /\ frames_to_skip = 0 => n_iters = 0
  /\ pc \in {"process", "send", "pace"}
       => processed_frame_index = n_iters * frames_to_skip
  /\ n_iters > 0 => processed_frame_index >= (n_iters - 1) * frames_to_skip
  /\ cause = "end_of_video" => processed_frame_index = source_frames + 1

\* an iteration begins with a read attempt, and a frame is processed only
\* in the step after the read that delivered it
ReadsFirst ==
  /\ n_iters' # n_iters
       => (pc = "loop" /\ pc' = "read" /\ n_iters' = n_iters + 1)
  /\ (pc = "read" /\ pc' # "read" /\ cause' = cause /\ raised' = raised)
       => processed_frame_index' = processed_frame_index + 1
  /\ pc' = "process"
       => (pc = "read" /\ processed_frame_index' = processed_frame_index + 1)
  /\ (pc = "process" /\ pc' = "loop") => n_drops' = n_drops + 1

\* C14: for a video of N frames the send loop always ends: every iteration,
\* one that drops its frame included, begins with a read attempt, so there
\* are at most N div frames_to_skip + 1 iterations and at most N + 1 read
\* attempts before the loop is left, by the end of the video or earlier by
\* a transport error or an interrupt; no frame is processed twice.
C14_LoopTerminates ==
  /\ [](LoopBounds)
  /\ [][ReadsFirst]_vars
  /\ (InLoop ~> (pc \in {"finally", "exited"}))

\* a run over four frames, two skipped for each one kept, that dropped a
\* frame and was ended by the end of the video in its second iteration
C14_Witness ==
  /\ pc = "exited"
  /\ cause = "end_of_video"
  /\ source_frames = 4
  /\ frames_to_skip = 3
  /\ n_iters = 2
  /\ processed_frame_index = 5
  /\ n_drops = 1

====
